---- MODULE Spec2Model ----
(***************************************************************************)
(* Model of the hive table-size counter (rea1shane/counter).               *)
(*                                                                         *)
(* The walker (fetch) lists the databases, skips the blacklisted ones,     *)
(* lists the tables of each remaining database and resolves every table's  *)
(* location from SHOW CREATE TABLE; main then resolves the size of every   *)
(* entity whose location contains hdfs:// and writes the entities to       *)
(* MySQL.                                                                  *)
(*                                                                         *)
(* A Go string is a sequence of tokens.  The tokens are the substrings the *)
(* program looks for ("LOCATION", "'", "hdfs://", "/"), the blank " " and  *)
(* the letters "a", "c" standing for any other text.  A row of a cursor is *)
(* one such string; the empty string is << >>.                             *)
(***************************************************************************)
EXTENDS Integers, Sequences, FiniteSets, TLC

VARIABLES
    pc,         \* position of main / fetch
    blacklist,  \* config.Blacklist.Db
    dbs,        \* fetch: dbs
    i,          \* fetch: index of the range over dbs
    tables,     \* fetch: tables
    j,          \* fetch: index of the range over tables
    entities,   \* fetch / main: entities ([]*Hive)
    k,          \* main: index of the range over entities (size loop)
    written,    \* rows handed to db.Create
    calls,      \* the catalog and filesystem calls issued so far, in order
    listed,     \* the (db, table) pairs returned by listTables so far, in order
    resp,       \* the catalog's answer to the last SHOW CREATE TABLE
    ret         \* the result of the last getLocation / parseHdfsLocation

vars == <<pc, blacklist, dbs, i, tables, j, entities, k, written, calls, listed, resp, ret>>

-----------------------------------------------------------------------------
(* Tokens and program constants *)

hdfsFlag == "hdfs://"
MARKER == "LOCATION"
QUOTE == "'"
SLASH == "/"
SP == " "

\* err.Error() of the errors the program meets
ErrHive == "hive: query failed"
ErrNoMoreRows == "No more rows are left"
ErrNoLocation == "have no location"
ErrHdfs == "hdfs: file does not exist"

ZeroDate == "0001-01-01"
Today == "today"

-----------------------------------------------------------------------------
(* Bounds *)

MaxEntries == 3    \* tables the catalog lists in one run, over all databases
MaxHead == 2       \* rows before the last row of a SHOW CREATE TABLE answer
MaxLineLen == 4    \* tokens in the row that carries the quoted path
MaxAuthLen == 1    \* tokens in the authority of an hdfs location
MaxPathLen == 3    \* tokens in the path of an hdfs location

-----------------------------------------------------------------------------
(* Go's strings package *)

\* strings.Index for a one-token separator; 0 when absent
IndexOf(s, tok) ==
    IF \E n \in 1..Len(s) : s[n] = tok
    THEN CHOOSE n \in 1..Len(s) : s[n] = tok /\ \A m \in 1..(n - 1) : s[m] # tok
    ELSE 0

\* strings.Contains
Contains(s, tok) == IndexOf(s, tok) # 0

\* strings.Split(s, sep)
RECURSIVE Split(_, _)
Split(s, sep) ==
    LET n == IndexOf(s, sep)
    IN  IF n = 0 THEN <<s>>
        ELSE <<SubSeq(s, 1, n - 1)>> \o Split(SubSeq(s, n + 1, Len(s)), sep)

\* strings.SplitN(s, sep, 2)
SplitN2(s, sep) ==
    LET n == IndexOf(s, sep)
    IN  IF n = 0 THEN <<s>>
        ELSE <<SubSeq(s, 1, n - 1), SubSeq(s, n + 1, Len(s))>>

-----------------------------------------------------------------------------
(* getLocation *)

Ok(location) == [kind |-> "ok", location |-> location, err |-> ""]
Err(msg) == [kind |-> "err", location |-> <<>>, err |-> msg]
Panic == [kind |-> "panic", location |-> <<>>, err |-> ""]

\* variant: the row is the marker once its blanks are trimmed
IsMarkerRow_Trimmed(row) ==
    \E a, b \in 0..Len(row) :
        /\ a + 1 + b = Len(row)
        /\ row[a + 1] = MARKER
        /\ \A n \in 1..Len(row) : n # a + 1 => row[n] = SP

\* createSql == "LOCATION": the row is the marker, compared as it is
IsMarkerRow(row) == row = <<MARKER>>

\* The loop over the cursor: n rows are fetched already, FetchOne number
\* failAt fails (0: none does).  A FetchOne past the last row fails.
RECURSIVE FetchLoop(_, _, _)
FetchLoop(rows, n, failAt) ==
    IF n >= Len(rows) THEN Ok(<<>>)
    ELSE IF failAt = n + 1 THEN Err(ErrHive)
    ELSE IF IsMarkerRow(rows[n + 1])
         THEN IF n + 2 > Len(rows) THEN Err(ErrNoMoreRows)
              ELSE IF failAt = n + 2 THEN Err(ErrHive)
              ELSE Ok(rows[n + 2])
    ELSE FetchLoop(rows, n + 1, failAt)

\* variant: the last piece instead of the second
QuotedPart_Last(pieces) == IF Len(pieces) < 2 THEN Panic ELSE Ok(pieces[Len(pieces)])

\* strings.Split(location, "'")[1]; indexing a one-element slice panics
QuotedPart(pieces) == IF Len(pieces) < 2 THEN Panic ELSE Ok(pieces[2])

getLocation(r) ==
    IF r.execErr THEN Err(ErrHive)
    ELSE LET f == FetchLoop(r.rows, 0, r.failAt)
         IN  IF f.kind = "err" THEN f
             ELSE IF f.location = <<>> THEN Err(ErrNoLocation)
             ELSE QuotedPart(Split(f.location, QUOTE))

-----------------------------------------------------------------------------
(* getHdfsSize, parseHdfsLocation, inBlacklist *)

\* "/" + strings.SplitN(strings.Split(location, hdfsFlag)[1], "/", 2)[1] + "/"
parseHdfsLocation(location) ==
    LET a == Split(location, hdfsFlag)
    IN  IF Len(a) < 2 THEN Panic
        ELSE LET b == SplitN2(a[2], SLASH)
             IN  IF Len(b) < 2 THEN Panic
                 ELSE Ok(<<SLASH>> \o b[2] \o <<SLASH>>)

\* path := parseHdfsLocation(location); client.GetContentSummary(path)
\* a: the filesystem's answer, should the query be issued
getHdfsSize(location, a) ==
    LET p == parseHdfsLocation(location)
    IN  IF p.kind = "panic" THEN Panic
        ELSE IF a.fails
             THEN [kind |-> "err", err |-> ErrHdfs, size |-> 0, path |-> p.location]
             ELSE [kind |-> "ok", err |-> "", size |-> a.size, path |-> p.location]

\* variant: the blacklist is ignored
inBlacklist_Never(db) == FALSE

\* for _, s := range config.Blacklist.Db { if db == s { return true } }

inBlacklist(db) == db \in blacklist

-----------------------------------------------------------------------------
(* The Hive entities *)

\* variant: the failure keeps the zero size
NewFailure_ZeroSize(db, table, msg) ==
    [Db |-> db, Table |-> table, Location |-> <<>>, Size |-> 0, Desc |-> msg,
     Date |-> ZeroDate]

\* &Hive{Db, Table, Location: "", Size: -1, Desc: err.Error()}
NewFailure(db, table, msg) ==
    [Db |-> db, Table |-> table, Location |-> <<>>, Size |-> -1, Desc |-> msg,
     Date |-> ZeroDate]

\* &Hive{Db, Table, Location}
NewEntity(db, table, location) ==
    [Db |-> db, Table |-> table, Location |-> location, Size |-> 0, Desc |-> "",
     Date |-> ZeroDate]

\* variant: the entity is put in front
AppendEntity_Front(ents, e) == <<e>> \o ents

\* entities = append(entities, e)
AppendEntity(ents, e) == Append(ents, e)

\* variant: a failed table is skipped
AppendFailure_Skip(ents, db, table, msg) == ents

\* the error branch of the table loop: append the failure, continue
AppendFailure(ents, db, table, msg) == AppendEntity(ents, NewFailure(db, table, msg))

\* variant: the entities collected so far are returned
FetchFailed_Partial(ents) == ents

\* return nil, err
FetchFailed(ents) == <<>>

\* variant: the location is cleared as well
SizeFailed_LoseLocation(e, msg) == [e EXCEPT !.Location = <<>>, !.Size = -1, !.Desc = msg]

\* entity.Size = -1; entity.Desc = err.Error()
SizeFailed(e, msg) == [e EXCEPT !.Size = -1, !.Desc = msg]

\* entity.Size = size
SizeResolved(e, size) == [e EXCEPT !.Size = size]

-----------------------------------------------------------------------------
(* What the catalog and the filesystem may answer *)

DbNames == {"ods", "stg_stream"}
TableNames == {"t1", "t2"}
Blacklists == {{}, {"stg_stream"}}
SizeValues == {0, 1024}

\* a listing names nothing twice
Listings(S) ==
    {s \in UNION {[1..m -> S] : m \in 0..Cardinality(S)} :
        \A a, b \in DOMAIN s : a # b => s[a] # s[b]}

HdfsRow == <<SP, QUOTE, hdfsFlag, "c", SLASH, "a", QUOTE>>
LocalRow == <<QUOTE, SLASH, "a", QUOTE, SP>>
NoSlashRow == <<QUOTE, hdfsFlag, "c", QUOTE>>
EmbeddedRow == <<QUOTE, "a", hdfsFlag, "c", SLASH, QUOTE>>
EmptyQuoteRow == <<QUOTE, QUOTE>>
TextRow == <<"a">>

Answer(rows) == [execErr |-> FALSE, rows |-> rows, failAt |-> 0]

\* the SHOW CREATE TABLE answers the walker meets
DescribeResponses ==
    { [execErr |-> TRUE, rows |-> <<>>, failAt |-> 0],
      Answer(<<TextRow, <<MARKER>>, HdfsRow>>),
      Answer(<<<<MARKER>>, LocalRow>>),
      Answer(<<TextRow>>),
      Answer(<<<<SP, MARKER>>, HdfsRow>>),
      Answer(<<<<MARKER>>>>),
      [execErr |-> FALSE, rows |-> <<<<MARKER>>, HdfsRow>>, failAt |-> 2],
      Answer(<<<<MARKER>>, TextRow>>),
      Answer(<<<<MARKER>>, NoSlashRow>>),
      Answer(<<<<MARKER>>, EmbeddedRow>>),
      Answer(<<<<MARKER>>, EmptyQuoteRow>>) }

\* the filesystem's answers to GetContentSummary
FsAnswers ==
    {[fails |-> TRUE, size |-> 0]} \cup {[fails |-> FALSE, size |-> n] : n \in SizeValues}

NoResp == [execErr |-> FALSE, rows |-> <<>>, failAt |-> 0]

-----------------------------------------------------------------------------
(* main and fetch *)

Init ==
    /\ pc = "fetch"
    /\ blacklist \in Blacklists
    /\ dbs = <<>>
    /\ i = 1
    /\ tables = <<>>
    /\ j = 1
    /\ entities = <<>>
    /\ k = 1
    /\ written = <<>>
    /\ calls = <<>>
    /\ listed = <<>>
    /\ resp = NoResp
    /\ ret = Ok(<<>>)

\* dbs, err := listDbs(ctx, hiveCursor): the listing fails, main log.Fatal-s
ListDbsErr ==
    /\ pc = "fetch"
    /\ calls' = Append(calls, <<"listDbs">>)
    /\ entities' = FetchFailed(entities)
    /\ pc' = "fatal"
    /\ UNCHANGED <<blacklist, dbs, i, tables, j, k, written, listed, resp, ret>>

ListDbsOk ==
    /\ pc = "fetch"
    /\ \E r \in Listings(DbNames) : dbs' = r
    /\ calls' = Append(calls, <<"listDbs">>)
    /\ i' = 1
    /\ pc' = "dbLoop"
    /\ UNCHANGED <<blacklist, tables, j, entities, k, written, listed, resp, ret>>

\* if inBlacklist(db) { continue }
SkipDb ==
    /\ pc = "dbLoop"
    /\ i <= Len(dbs)
    /\ inBlacklist(dbs[i])
    /\ i' = i + 1
    /\ UNCHANGED <<pc, blacklist, dbs, tables, j, entities, k, written, calls, listed, resp, ret>>

\* tables, err := listTables(ctx, hiveCursor, db): return nil, err
ListTablesErr ==
    /\ pc = "dbLoop"
    /\ i <= Len(dbs)
    /\ ~inBlacklist(dbs[i])
    /\ calls' = Append(calls, <<"listTables", dbs[i]>>)
    /\ entities' = FetchFailed(entities)
    /\ pc' = "fatal"
    /\ UNCHANGED <<blacklist, dbs, i, tables, j, k, written, listed, resp, ret>>

ListTablesOk ==
    /\ pc = "dbLoop"
    /\ i <= Len(dbs)
    /\ ~inBlacklist(dbs[i])
    /\ \E r \in Listings(TableNames) :
        /\ Len(listed) + Len(r) <= MaxEntries
        /\ tables' = r
        /\ listed' = listed \o [n \in 1..Len(r) |-> <<dbs[i], r[n]>>]
    /\ calls' = Append(calls, <<"listTables", dbs[i]>>)
    /\ j' = 1
    /\ pc' = "tableLoop"
    /\ UNCHANGED <<blacklist, dbs, i, entities, k, written, resp, ret>>

\* one turn of the table loop: getLocation, then one of the two appends
GetLocationStep ==
    /\ pc = "tableLoop"
    /\ j <= Len(tables)
    /\ \E r \in DescribeResponses :
        LET g == getLocation(r)
        IN  /\ resp' = r
            /\ ret' = g
            /\ \/ /\ g.kind = "panic"
                  /\ pc' = "panic"
                  /\ UNCHANGED <<entities, j>>
               \/ /\ g.kind = "err"
                  /\ entities' = AppendFailure(entities, dbs[i], tables[j], g.err)
                  /\ j' = j + 1
                  /\ UNCHANGED pc
               \/ /\ g.kind = "ok"
                  /\ entities' = AppendEntity(entities, NewEntity(dbs[i], tables[j], g.location))
                  /\ j' = j + 1
                  /\ UNCHANGED pc
    /\ calls' = Append(calls, <<"describe", dbs[i], tables[j]>>)
    /\ UNCHANGED <<blacklist, dbs, i, tables, k, written, listed>>

\* the table loop is over: next db
EndTables ==
    /\ pc = "tableLoop"
    /\ j > Len(tables)
    /\ i' = i + 1
    /\ pc' = "dbLoop"
    /\ UNCHANGED <<blacklist, dbs, tables, j, entities, k, written, calls, listed, resp, ret>>

\* return entities, err: main goes on to the size loop
FetchReturn ==
    /\ pc = "dbLoop"
    /\ i > Len(dbs)
    /\ k' = 1
    /\ pc' = "sizeLoop"
    /\ UNCHANGED <<blacklist, dbs, i, tables, j, entities, written, calls, listed, resp, ret>>

\* one turn of the size loop on an entity whose location has no hdfs://
SkipSize ==
    /\ pc = "sizeLoop"
    /\ k <= Len(entities)
    /\ ~Contains(entities[k].Location, hdfsFlag)
    /\ k' = k + 1
    /\ UNCHANGED <<pc, blacklist, dbs, i, tables, j, entities, written, calls, listed, resp, ret>>

\* one turn of the size loop on an entity whose location has hdfs://
ResolveSize ==
    /\ pc = "sizeLoop"
    /\ k <= Len(entities)
    /\ Contains(entities[k].Location, hdfsFlag)
    /\ \E a \in FsAnswers :
        LET r == getHdfsSize(entities[k].Location, a)
        IN  /\ ret' = r
            /\ \/ /\ r.kind = "panic"
                  /\ pc' = "panic"
                  /\ UNCHANGED <<entities, k, calls>>
               \/ /\ r.kind = "err"
                  /\ calls' = Append(calls, <<"size", r.path>>)
                  /\ entities' = [entities EXCEPT ![k] = SizeFailed(@, r.err)]
                  /\ k' = k + 1
                  /\ UNCHANGED pc
               \/ /\ r.kind = "ok"
                  /\ calls' = Append(calls, <<"size", r.path>>)
                  /\ entities' = [entities EXCEPT ![k] = SizeResolved(@, r.size)]
                  /\ k' = k + 1
                  /\ UNCHANGED pc
    /\ UNCHANGED <<blacklist, dbs, i, tables, j, written, listed, resp>>

\* entity.Date = date; db.Create(entity), for every entity
WriteToMysql ==
    /\ pc = "sizeLoop"
    /\ k > Len(entities)
    /\ entities' = [n \in 1..Len(entities) |-> [entities[n] EXCEPT !.Date = Today]]
    /\ written' = entities'
    /\ pc' = "done"
    /\ UNCHANGED <<blacklist, dbs, i, tables, j, k, calls, listed, resp, ret>>

Next ==
    \/ ListDbsErr
    \/ ListDbsOk
    \/ SkipDb
    \/ ListTablesErr
    \/ ListTablesOk
    \/ GetLocationStep
    \/ EndTables
    \/ FetchReturn
    \/ SkipSize
    \/ ResolveSize
    \/ WriteToMysql

Spec == Init /\ [][Next]_vars

-----------------------------------------------------------------------------
(* Notions the claims are stated with *)

\* the (database, table) pair of every entry, in order
Pairs(ents) == [n \in 1..Len(ents) |-> <<ents[n].Db, ents[n].Table>>]

\* how often x occurs in seq
Count(seq, x) == Cardinality({n \in 1..Len(seq) : seq[n] = x})

\* the place of x in a sequence that holds it once
PosIn(seq, x) == CHOOSE n \in 1..Len(seq) : seq[n] = x

\* an entry whose location was never resolved / whose size query failed
IsLocationFailure(e) == e.Location = <<>> /\ e.Size = -1
IsSizeFailure(e) == e.Location # <<>> /\ e.Size = -1

-----------------------------------------------------------------------------
C2_SentinelCoupling ==
    pc = "done" =>
        \A n \in 1..Len(written) : (written[n].Size = -1) <=> (written[n].Desc # "")

C2_Witness ==
    /\ pc = "done"
    /\ \E n \in 1..Len(written) : IsLocationFailure(written[n])
    /\ \E n \in 1..Len(written) : IsSizeFailure(written[n])
    /\ \E n \in 1..Len(written) : written[n].Size >= 0

(* C3: a blacklisted database has no entry, and neither its tables are     *)
(* listed nor any of its tables is described.                              *)
C3_BlacklistSkipped ==
    \A db \in blacklist :
        /\ \A n \in 1..Len(entities) : entities[n].Db # db
        /\ \A n \in 1..Len(written) : written[n].Db # db
        /\ \A n \in 1..Len(calls) :
               calls[n][1] \in {"listTables", "describe"} => calls[n][2] # db

C3_Witness ==
    /\ pc = "done"
    /\ Len(written) >= 2
    /\ \E n \in 1..Len(dbs) : dbs[n] \in blacklist /\ n < Len(dbs)

\* the SHOW CREATE TABLE answer has no location to give: the query or a
\* fetch fails, no row is the marker, or the row after the first marker does
\* not hold a non-empty text between two single quotes
FirstMarker(rows) ==
    IF \E n \in 1..Len(rows) : rows[n] = <<MARKER>>
    THEN CHOOSE n \in 1..Len(rows) :
             rows[n] = <<MARKER>> /\ \A m \in 1..(n - 1) : rows[m] # <<MARKER>>
    ELSE 0

HasQuotedText(row) ==
    \E a, b \in 1..Len(row) :
        /\ a + 1 < b
        /\ row[a] = QUOTE
        /\ row[b] = QUOTE
        /\ \A n \in 1..(b - 1) : n # a => row[n] # QUOTE

LocationFails(r) ==
    \/ r.execErr
    \/ r.failAt \in 1..(IF FirstMarker(r.rows) = 0 THEN Len(r.rows) ELSE FirstMarker(r.rows) + 1)
    \/ FirstMarker(r.rows) = 0
    \/ FirstMarker(r.rows) = Len(r.rows)
    \/ ~HasQuotedText(r.rows[FirstMarker(r.rows) + 1])

(* C4: when the describe call or the location parsing fails for a table,   *)
(* the walker appends the entry (location "", size -1, description the     *)
(* error message) and goes on with the next table.                         *)
C4_TableFailureIsRecorded ==
    [][(pc = "tableLoop" /\ j <= Len(tables) /\ LocationFails(resp'))
        => /\ pc' = "tableLoop"
           /\ j' = j + 1
           /\ ret'.err # ""
           /\ entities' = Append(entities,
                  [Db |-> dbs[i], Table |-> tables[j], Location |-> <<>>,
                   Size |-> -1, Desc |-> ret'.err, Date |-> ZeroDate])]_vars

(* C5: when the database listing or a table listing fails, the run ends    *)
(* fatally with no entry returned and no row written; rows are written     *)
(* only by a run that got through.                                         *)
C5_FatalLeavesNothing ==
    /\ pc = "fatal" =>
           /\ entities = <<>>
           /\ written = <<>>
           /\ calls[Len(calls)][1] \in {"listDbs", "listTables"}
    /\ written # <<>> => pc = "done"

C5_Witness ==
    /\ pc = "fatal"
    /\ Len(listed) >= 2
    /\ calls[Len(calls)][1] = "listTables"

(* C6: in a run that completes, the entries follow the catalog's listing   *)
(* order: databases in the order of dbs, tables of one database in the     *)
(* order they were listed, failures and successes alike.                   *)
C6_ListingOrder ==
    pc = "done" =>
        \A n, m \in 1..Len(written) :
            n < m =>
                \/ PosIn(dbs, written[n].Db) < PosIn(dbs, written[m].Db)
                \/ /\ written[n].Db = written[m].Db
                   /\ PosIn(listed, <<written[n].Db, written[n].Table>>)
                          < PosIn(listed, <<written[m].Db, written[m].Table>>)

C6_Witness ==
    /\ pc = "done"
    /\ Len(written) >= 3
    /\ written[1].Db # written[3].Db
    /\ IsLocationFailure(written[1])
    /\ written[2].Size > 0
    /\ IsSizeFailure(written[3])

(* C7: when the size query of an entry fails, the entry stays where it is  *)
(* with its location, size -1 and the error message as description, and    *)
(* the size loop goes on with the next entry.                              *)
C7_SizeFailureKeepsEntry ==
    [][(pc = "sizeLoop" /\ k <= Len(entities) /\ calls' # calls /\ ret'.kind = "err")
        => /\ pc' = "sizeLoop"
           /\ k' = k + 1
           /\ ret'.err # ""
           /\ entities' = [entities EXCEPT ![k] =
                  [Db |-> entities[k].Db, Table |-> entities[k].Table,
                   Location |-> entities[k].Location, Size |-> -1,
                   Desc |-> ret'.err, Date |-> entities[k].Date]]]_vars

C7_Witness ==
    /\ pc = "done"
    /\ \E n, m \in 1..Len(written) :
        /\ n < m
        /\ IsSizeFailure(written[n])
        /\ Contains(written[n].Location, hdfsFlag)
        /\ written[m].Size > 0

-----------------------------------------------------------------------------
(* getLocation on its own: every SHOW CREATE TABLE answer within the bounds *)

Strings(A, n) == UNION {[1..m -> A] : m \in 0..n}

\* rows other than the one that carries the path
HeadRows == {<<>>, TextRow, <<MARKER>>, <<SP, MARKER>>, <<MARKER, SP>>}

\* candidates for the row that carries the path
PathRows == Strings({SP, QUOTE, "a"}, MaxLineLen)

\* every answer without a catalog error, and the failures of the query and
\* of each FetchOne
LocInputs ==
    {Answer(h \o t) :
        h \in Strings(HeadRows, MaxHead),
        t \in {<<>>} \cup {<<row>> : row \in PathRows}}
    \cup {[execErr |-> TRUE, rows |-> <<>>, failAt |-> 0]}
    \cup {[execErr |-> FALSE, rows |-> h \o <<LocalRow>>, failAt |-> f] :
            h \in Strings(HeadRows, MaxHead), f \in 1..(MaxHead + 1)}

InitLoc ==
    /\ pc = "getLocation"
    /\ resp \in LocInputs
    /\ ret = Ok(<<>>)
    /\ blacklist = {}
    /\ dbs = <<>>
    /\ i = 1
    /\ tables = <<>>
    /\ j = 1
    /\ entities = <<>>
    /\ k = 1
    /\ written = <<>>
    /\ calls = <<>>
    /\ listed = <<>>

GetLocationCall ==
    /\ pc = "getLocation"
    /\ ret' = getLocation(resp)
    /\ calls' = Append(calls, <<"describe">>)
    /\ pc' = IF ret'.kind = "panic" THEN "panic" ELSE "returned"
    /\ UNCHANGED <<blacklist, dbs, i, tables, j, entities, k, written, listed, resp>>

NextLoc == GetLocationCall

SpecLoc == InitLoc /\ [][NextLoc]_vars

\* a row without its leading and trailing blanks
RECURSIVE TrimLeft(_)
TrimLeft(row) ==
    IF row # <<>> /\ Head(row) = SP THEN TrimLeft(Tail(row)) ELSE row

RECURSIVE TrimRight(_)
TrimRight(row) ==
    IF row # <<>> /\ row[Len(row)] = SP THEN TrimRight(SubSeq(row, 1, Len(row) - 1)) ELSE row

Trim(row) == TrimRight(TrimLeft(row))

FirstTrimmedMarker(rows) ==
    IF \E n \in 1..Len(rows) : Trim(rows[n]) = <<MARKER>>
    THEN CHOOSE n \in 1..Len(rows) :
             Trim(rows[n]) = <<MARKER>> /\ \A m \in 1..(n - 1) : Trim(rows[m]) # <<MARKER>>
    ELSE 0

\* the text between the first and the second single quote of a row
QuotedText(row) ==
    LET a == IndexOf(row, QUOTE)
        rest == SubSeq(row, a + 1, Len(row))
    IN  SubSeq(rest, 1, IndexOf(rest, QUOTE) - 1)

Returned == pc \in {"returned", "panic"}
NoCatalogError == ~resp.execErr /\ resp.failAt = 0

(* C8 as claimed: when some row, trimmed, is the marker and the row after  *)
(* the first such row holds a non-empty text between its first two single  *)
(* quotes, getLocation returns that text.                                  *)
C8_TrimmedMarkerLocation ==
    LET m == FirstTrimmedMarker(resp.rows)
    IN  (Returned /\ NoCatalogError /\ m # 0 /\ m < Len(resp.rows)
            /\ HasQuotedText(resp.rows[m + 1]))
        => ret = Ok(QuotedText(resp.rows[m + 1]))

(* C8 amended: when some row is exactly the marker, with no blank around   *)
(* it, and the row after the first such row holds a non-empty text between *)
(* its first two single quotes, getLocation returns that text, whatever    *)
(* surrounds the quotes.                                                   *)
C8_ExactMarkerLocation ==
    LET m == FirstMarker(resp.rows)
    IN  (Returned /\ NoCatalogError /\ m # 0 /\ m < Len(resp.rows)
            /\ HasQuotedText(resp.rows[m + 1]))
        => ret = Ok(QuotedText(resp.rows[m + 1]))

C8_Witness ==
    /\ pc = "returned"
    /\ NoCatalogError
    /\ resp.rows = <<<<SP, MARKER>>, <<MARKER>>, <<SP, QUOTE, "a", QUOTE>>>>
    /\ ret = Ok(<<"a">>)

(* C9: getLocation never faults; it returns a location that is not empty   *)
(* or fails, and it fails when no row is the marker, when the row after    *)
(* the marker has fewer than two single quotes, or when nothing stands     *)
(* between the first two.                                                  *)
C9_NotFoundNeverFault ==
    (Returned /\ NoCatalogError) =>
        /\ ret.kind \in {"ok", "err"}
        /\ ret.kind = "ok" => ret.location # <<>>
        /\ LocationFails(resp) => ret.kind = "err"

-----------------------------------------------------------------------------
(* getHdfsSize on its own: locations hdfs://<authority>/<path> *)

PathInputs ==
    {[authority |-> a, path |-> p] :
        a \in Strings({"c", "a"}, MaxAuthLen),
        p \in Strings({SLASH, "a", hdfsFlag}, MaxPathLen)}

HdfsLocation(in) == <<hdfsFlag>> \o in.authority \o <<SLASH>> \o in.path

InitPath ==
    /\ pc = "getHdfsSize"
    /\ resp \in PathInputs
    /\ ret = Ok(<<>>)
    /\ blacklist = {}
    /\ dbs = <<>>
    /\ i = 1
    /\ tables = <<>>
    /\ j = 1
    /\ entities = <<>>
    /\ k = 1
    /\ written = <<>>
    /\ calls = <<>>
    /\ listed = <<>>

GetHdfsSizeCall ==
    /\ pc = "getHdfsSize"
    /\ \E a \in FsAnswers : ret' = getHdfsSize(HdfsLocation(resp), a)
    /\ calls' = IF ret'.kind = "panic" THEN calls ELSE Append(calls, <<"size", ret'.path>>)
    /\ pc' = IF ret'.kind = "panic" THEN "panic" ELSE "returned"
    /\ UNCHANGED <<blacklist, dbs, i, tables, j, entities, k, written, listed, resp>>

NextPath == GetHdfsSizeCall

SpecPath == InitPath /\ [][NextPath]_vars

(* C10: for a location hdfs://<authority>/<path> the path handed to the    *)
(* filesystem query is "/" followed by <path> followed by "/".             *)
C10_QueriedPath ==
    pc # "getHdfsSize" =>
        /\ pc = "returned"
        /\ calls = <<<<"size", <<SLASH>> \o resp.path \o <<SLASH>>>>>>

-----------------------------------------------------------------------------
\* the paths of the filesystem queries issued so far, in order
IsSizeCall(c) == c[1] = "size"
SizeCalls == [n \in 1..Len(SelectSeq(calls, IsSizeCall)) |-> SelectSeq(calls, IsSizeCall)[n][2]]

\* the entries whose location contains hdfs://, in order
HasHdfsFlag(e) == Contains(e.Location, hdfsFlag)
HdfsEntries(ents) == SelectSeq(ents, HasHdfsFlag)

(* C11: in the final output the filesystem was queried for exactly the     *)
(* entries whose location contains hdfs://, anywhere in it; an entry with  *)
(* a location that does not contain hdfs:// has size 0 and no description; *)
(* an entry with an empty location, its resolution having failed, caused   *)
(* no query and has size -1 and the failure as its description.            *)
C11_QueryIffHdfsFlag ==
    pc = "done" =>
        /\ Len(SizeCalls) = Len(HdfsEntries(written))
        /\ \A n \in 1..Len(SizeCalls) :
               SizeCalls[n] = parseHdfsLocation(HdfsEntries(written)[n].Location).location
        /\ \A n \in 1..Len(written) :
               /\ (written[n].Location # <<>> /\ ~HasHdfsFlag(written[n]))
                      => (written[n].Size = 0 /\ written[n].Desc = "")
               /\ written[n].Location = <<>>
                      => (written[n].Size = -1 /\ written[n].Desc # "")

====
